---- MODULE Spec2Model ----
(***************************************************************************)
(* Model of python/ingestion/gcs_to_bq_util.py:                            *)
(*   append_dataframe_to_bq   - the warehouse appender                     *)
(*   load_values_as_dataframe - the values-format (JSON) loader            *)
(*   load_csv_as_dataframe    - the CSV loader                             *)
(*   local_file_path          - the staging path of an object name         *)
(*                                                                         *)
(* A DataFrame is [columns, data]: the column labels in order (labels may  *)
(* repeat) and one sequence of cell values per row, aligned with columns.  *)
(* A python dict is a sequence of [k, v] entries with distinct keys, in    *)
(* insertion order.  Timestamps are integers: clock ticks of time.time().  *)
(***************************************************************************)
EXTENDS Integers, Sequences, FiniteSets, TLC

\* ------------------------------------------------------------- bounds
\* MaxCols, MaxRows: the columns and rows of a caller's table; MaxClock: the
\* clock readings; MaxTable: the rows the destination table may reach;
\* NumThreads: the threads that call the loaders.
MaxCols == 2
MaxRows == 2
MaxClock == 2
MaxTable == 3
NumThreads == 2

\* ------------------------------------------------------------- helpers
Range(s) == {s[i] : i \in DOMAIN s}

Count(s, x) == Cardinality({i \in DOMAIN s : s[i] = x})

NoRepeat(s) == \A i, j \in DOMAIN s : s[i] = s[j] => i = j

SeqsUpTo(S, n) == UNION {[1..k -> S] : k \in 0..n}

\* ------------------------------------------------------------- dicts
Keys(d) == [i \in DOMAIN d |-> d[i].k]

KeySet(d) == {d[i].k : i \in DOMAIN d}

Has(d, key) == \E i \in DOMAIN d : d[i].k = key

Get(d, key) == d[CHOOSE i \in DOMAIN d : d[i].k = key].v

\* d[key] = val: an existing key keeps its position, a new key goes last.
DictSet(d, key, val) ==
  IF Has(d, key)
  THEN [i \in DOMAIN d |-> IF d[i].k = key THEN [k |-> key, v |-> val] ELSE d[i]]
  ELSE Append(d, [k |-> key, v |-> val])

\* ------------------------------------------------------------- inputs
ColNames == <<"a", "b", "ingestion_time">>

ColNameSet == Range(ColNames)

\* The cell of row r, column position c of a caller's table: all cells of a
\* table differ, and none is a clock reading.
Cell(r, c) == 100 + 10 * r + c

MkFrame(cols, n) ==
  [columns |-> cols,
   data |-> [r \in 1..n |-> [c \in DOMAIN cols |-> Cell(r, c)]]]

Frames == {MkFrame(cols, n) : cols \in SeqsUpTo(ColNameSet, MaxCols), n \in 0..MaxRows}

DeclaredType(c, t) ==
  IF c = "a" THEN "STRING" ELSE IF c = "b" THEN "INTEGER" ELSE t

RECURSIVE DictOf(_, _, _)
DictOf(S, t, i) ==
  IF i > Len(ColNames) THEN <<>>
  ELSE IF ColNames[i] \in S
       THEN <<[k |-> ColNames[i], v |-> DeclaredType(ColNames[i], t)]>>
              \o DictOf(S, t, i + 1)
       ELSE DictOf(S, t, i + 1)

\* Column Type Mappings: every key set, with ingestion_time (when declared)
\* typed TIMESTAMP or STRING.
ColumnTypeChoices ==
  {DictOf(S, t, 1) : S \in SUBSET ColNameSet, t \in {"TIMESTAMP", "STRING"}}

\* col_modes: None (given = FALSE) or a dict.
ColModeChoices ==
  {[given |-> FALSE, map |-> <<>>],
   [given |-> TRUE, map |-> <<[k |-> "a", v |-> "REQUIRED"]>>],
   [given |-> TRUE, map |-> <<[k |-> "ingestion_time", v |-> "REQUIRED"],
                              [k |-> "z", v |-> "REPEATED"]>>]}

\* ------------------------------------------------------------- state
VARIABLES
  frame,         \* the caller's DataFrame object
  column_types,  \* the caller's Column Type Mapping object
  col_modes,     \* the caller's Column Mode Mapping argument
  clock,         \* the wall clock time.time() reads
  table,         \* the rows of the destination table dataset.table_name
  last,          \* the latest append_dataframe_to_bq call made with these objects
  files,         \* the local file system: path -> content, or "absent"
  pc,            \* per thread: where its loader call stands
  args,          \* per thread: the arguments and local_path of its loader call
  result         \* per thread: how its loader call ended

appendVars == <<frame, column_types, col_modes, clock, table, last>>

loadVars == <<files, pc, args, result>>

\* What the destination table holds before the first call.
ExistingRows == {<<>>, <<[c \in {"a", "ingestion_time"} |-> 0]>>}

NoJob == [write_disposition |-> "", schema |-> <<>>, json_data |-> <<>>]

NoPrev ==
  [called |-> FALSE, same |-> FALSE, error |-> "none", submitted |-> FALSE,
   now |-> 0, emitted |-> {}, tableLen |-> 0, nrows |-> 0, ncols |-> 0]

\* The record of a call: the arguments as they were when it began (T, M,
\* col_modes), the clock reading it took (now), what it did (client built, job
\* submitted, error raised), the destination's rows before it, whether the
\* caller has replaced the table object since (fresh), and a summary of the
\* call before it (prev).
NoCall ==
  [called |-> FALSE, error |-> "none", client |-> FALSE, submitted |-> FALSE,
   job |-> NoJob, T |-> MkFrame(<<>>, 0), M |-> <<>>,
   col_modes |-> [given |-> FALSE, map |-> <<>>],
   now |-> 0, tableBefore |-> <<>>, fresh |-> FALSE, prev |-> NoPrev]

EmittedTimes(job) == {job.json_data[r]["ingestion_time"] : r \in DOMAIN job.json_data}

Summary(c) ==
  [called |-> c.called, same |-> c.called /\ ~c.fresh, error |-> c.error,
   submitted |-> c.submitted, now |-> c.now,
   emitted |-> IF c.submitted THEN EmittedTimes(c.job) ELSE {},
   tableLen |-> Len(c.tableBefore), nrows |-> Len(c.T.data),
   ncols |-> Len(c.T.columns)]

\* ------------------------------------------------------------- append_dataframe_to_bq
\* len(input_cols) != len(frame.columns) or set(input_cols) != set(frame.columns)
ColumnsMatchSetOnly(f, types) == KeySet(types) = Range(f.columns)

ColumnsMatch(f, types) ==
  /\ Len(Keys(types)) = Len(f.columns)
  /\ KeySet(types) = Range(f.columns)

\* columns = column_types.copy(); columns['ingestion_time'] = 'TIMESTAMP'.
\* caller: the caller's dict after the two statements; columns: the local dict.
AugmentAliased(types) ==
  [caller |-> DictSet(types, "ingestion_time", "TIMESTAMP"),
   columns |-> DictSet(types, "ingestion_time", "TIMESTAMP")]

AugmentForgotten(types) == [caller |-> types, columns |-> types]

AugmentColumns(types) ==
  [caller |-> types,
   columns |-> DictSet(types, "ingestion_time", "TIMESTAMP")]

\* frame['ingestion_time'] = ingestion_time, on the caller's object: an existing
\* column of that label is overwritten in every row, a new one goes last.
StampFrameKeepExisting(f, t) ==
  IF "ingestion_time" \in Range(f.columns) THEN f
  ELSE [columns |-> Append(f.columns, "ingestion_time"),
        data |-> [r \in DOMAIN f.data |-> Append(f.data[r], t)]]

StampFrame(f, t) ==
  IF "ingestion_time" \in Range(f.columns)
  THEN [f EXCEPT !.data =
          [r \in DOMAIN f.data |->
             [c \in DOMAIN f.columns |->
                IF f.columns[c] = "ingestion_time" THEN t ELSE f.data[r][c]]]]
  ELSE [columns |-> Append(f.columns, "ingestion_time"),
        data |-> [r \in DOMAIN f.data |-> Append(f.data[r], t)]]

\* job_config.write_disposition
WriteDispositionTruncate == "WRITE_TRUNCATE"

WriteDisposition == "WRITE_APPEND"

\* create_field(col)
CreateFieldNullable(col, columns, modes) ==
  [name |-> col, field_type |-> Get(columns, col), mode |-> "NULLABLE"]

CreateField(col, columns, modes) ==
  [name |-> col,
   field_type |-> Get(columns, col),
   mode |-> IF Has(modes, col) THEN Get(modes, col) ELSE "NULLABLE"]

\* schema = list(map(create_field, columns.keys()))
Schema(columns, modes) ==
  [i \in DOMAIN columns |-> CreateField(Keys(columns)[i], columns, modes)]

\* frame.to_json(orient='records') raises ValueError on repeated column labels.
ToJsonOk(f) == NoRepeat(f.columns)

\* json.loads(frame.to_json(orient='records')): one object per row, in row
\* order, keyed by column label.  Cell values are whole clock ticks and whole
\* numbers, which the 10 decimal digits to_json writes carry unchanged.
ToJsonRecords(f) ==
  [r \in DOMAIN f.data |->
     [c \in Range(f.columns) |->
        f.data[r][CHOOSE i \in DOMAIN f.columns : f.columns[i] = c]]]

\* client.load_table_from_json(...).result() on the destination table, when the
\* job succeeds.
LoadTable(rows, job) ==
  IF job.write_disposition = "WRITE_APPEND" THEN rows \o job.json_data
  ELSE job.json_data

append_dataframe_to_bq ==
  /\ Len(table) + Len(frame.data) <= MaxTable
  /\ \E service \in {"ok", "ClientError", "LoadJobError"} :
       LET modes == IF col_modes.given THEN col_modes.map ELSE <<>>
           call == [NoCall EXCEPT !.called = TRUE, !.T = frame, !.M = column_types,
                                  !.col_modes = col_modes, !.now = clock,
                                  !.tableBefore = table, !.prev = Summary(last)]
       IN IF ~ColumnsMatch(frame, column_types)
          THEN /\ service = "ok"
               /\ last' = [call EXCEPT !.error = "SchemaMismatch"]
               /\ UNCHANGED <<frame, column_types, table>>
          ELSE LET aug == AugmentColumns(column_types)
                   ingestion_time == clock
                   stamped == StampFrame(frame, ingestion_time)
                   job == [write_disposition |-> WriteDisposition,
                           schema |-> Schema(aug.columns, modes),
                           json_data |-> ToJsonRecords(stamped)]
               IN /\ column_types' = aug.caller
                  /\ frame' = stamped
                  /\ IF service = "ClientError"
                     THEN /\ last' = [call EXCEPT !.error = "ClientError"]
                          /\ table' = table
                     ELSE IF ~ToJsonOk(stamped)
                     THEN /\ last' = [call EXCEPT !.error = "ValueError", !.client = TRUE]
                          /\ table' = table
                     ELSE IF service = "LoadJobError"
                     THEN /\ last' = [call EXCEPT !.error = "LoadJobError", !.client = TRUE,
                                                  !.submitted = TRUE, !.job = job]
                          /\ table' = table
                     ELSE /\ last' = [call EXCEPT !.client = TRUE, !.submitted = TRUE,
                                                  !.job = job]
                          /\ table' = LoadTable(table, job)
  /\ UNCHANGED <<col_modes, clock>>
  /\ UNCHANGED loadVars

\* The caller passes a fresh copy of the table it passed to the latest call
\* (it reloads the table, or had kept a copy).
CallerReloadsTable ==
  /\ last.called
  /\ frame # last.T
  /\ frame' = last.T
  /\ last' = [last EXCEPT !.fresh = TRUE]
  /\ UNCHANGED <<column_types, col_modes, clock, table>>
  /\ UNCHANGED loadVars

Tick ==
  /\ clock < MaxClock
  /\ clock' = clock + 1
  /\ UNCHANGED <<frame, column_types, col_modes, table, last>>
  /\ UNCHANGED loadVars

AppendInit ==
  /\ frame \in Frames
  /\ column_types \in ColumnTypeChoices
  /\ col_modes \in ColModeChoices
  /\ clock = 1
  /\ table \in ExistingRows
  /\ last = NoCall

vars == <<frame, column_types, col_modes, clock, table, last, files, pc, args, result>>

\* ------------------------------------------------------------- object store
Buckets == {"b1", "b2"}

FileNames == {"f", "g"}

\* The objects of the store, by their text:
\*   "V"  [["a","b"],[1,2],[3,4]]     "C"  a,b\n1,2\n3,4\n
\*   "E"  []                          "F"  [1,2]
Objects ==
  [b \in Buckets |-> [f \in FileNames |->
     IF b = "b1" THEN (IF f = "f" THEN "V" ELSE "E")
                 ELSE (IF f = "f" THEN "C" ELSE "F")]]

Threads == 1..NumThreads

\* ------------------------------------------------------------- local_file_path
LocalFilePathFixed(filename) == "/tmp/" \o "staging"

LocalFilePath(filename) == "/tmp/" \o filename

Paths == {LocalFilePath(f) : f \in FileNames}

\* ------------------------------------------------------------- parsing
\* json.load(json_file); data[0].copy(); data[1:].copy();
\* DataFrame.from_records(records, columns=col_names): the exception raised, or
\* "none".
ValuesError(text) ==
  CASE text = "V" -> "none"
    [] text = "C" -> "JSONDecodeError"
    [] text = "E" -> "IndexError"
    [] text = "F" -> "AttributeError"

ValuesFrame(text) ==
  IF text = "V" THEN [columns |-> <<"a", "b">>, data |-> <<<<1, 2>>, <<3, 4>>>>]
  ELSE MkFrame(<<>>, 0)

\* pandas.read_csv(local_path, dtype=dtype): the first line is the header.  The
\* one-line JSON texts are a header and no rows.
CsvFrame(text) ==
  CASE text = "C" -> [columns |-> <<"a", "b">>, data |-> <<<<1, 2>>, <<3, 4>>>>]
    [] text = "V" -> [columns |-> <<"[[a", "b]", "[1", "2]", "[3", "4]]">>, data |-> <<>>]
    [] text = "E" -> [columns |-> <<"[]">>, data |-> <<>>]
    [] text = "F" -> [columns |-> <<"[1", "2]">>, data |-> <<>>]

\* ------------------------------------------------------------- loader calls
NoArgs == [loader |-> "", gcs_bucket |-> "", filename |-> "", local_path |-> ""]

\* status: "none" (no call ended), "frame" (a table was returned) or "error";
\* parsed: the text the call parsed; atEnd: what local_path held when the call
\* ended.
NoResult ==
  [status |-> "none", error |-> "none", parsed |-> "", frame |-> MkFrame(<<>>, 0),
   atEnd |-> ""]

Ended(p) == pc[p] \in {"done", "failed"}

Fail(p, err, text) ==
  /\ pc' = [pc EXCEPT ![p] = "failed"]
  /\ result' = [result EXCEPT ![p] =
        [NoResult EXCEPT !.status = "error", !.error = err, !.parsed = text,
                         !.atEnd = files'[args'[p].local_path]]]

\* client = storage.Client(); bucket = client.get_bucket(gcs_bucket);
\* blob = bucket.blob(filename); local_path = local_file_path(filename).
\* The store may refuse (NotFound, authorization) before any file is touched.
StartCall(p, l, b, f) ==
  /\ args' = [args EXCEPT ![p] = [loader |-> l, gcs_bucket |-> b, filename |-> f,
                                  local_path |-> LocalFilePath(f)]]
  /\ files' = files
  /\ UNCHANGED appendVars
  /\ \E refused \in BOOLEAN :
       IF refused
       THEN Fail(p, "StoreError", "")
       ELSE /\ pc' = [pc EXCEPT ![p] = "download"]
            /\ result' = [result EXCEPT ![p] = NoResult]

\* blob.download_to_filename(local_path): creates or overwrites the file.  The
\* statement is one step: another thread sees the file as it was before, or
\* holding all of the object's bytes.
Download(p) ==
  /\ pc[p] = "download"
  /\ files' = [files EXCEPT ![args[p].local_path] =
                 Objects[args[p].gcs_bucket][args[p].filename]]
  /\ pc' = [pc EXCEPT ![p] = IF args[p].loader = "values" THEN "parse" ELSE "read_csv"]
  /\ UNCHANGED <<args, result>>
  /\ UNCHANGED appendVars

\* load_values_as_dataframe: with open(local_path) ... from_records(...)
ParseValues(p) ==
  /\ pc[p] = "parse"
  /\ args[p].loader = "values"
  /\ UNCHANGED <<args, files>>
  /\ UNCHANGED appendVars
  /\ LET text == files[args[p].local_path]
     IN IF text = "absent" THEN Fail(p, "FileNotFoundError", "")
        ELSE IF ValuesError(text) # "none" THEN Fail(p, ValuesError(text), text)
        ELSE /\ pc' = [pc EXCEPT ![p] = "remove"]
             /\ result' = [result EXCEPT ![p] =
                   [NoResult EXCEPT !.parsed = text, !.frame = ValuesFrame(text)]]

\* load_values_as_dataframe: os.remove(local_path); return frame
ReturnWithoutRemove(p) ==
  /\ pc[p] = "remove"
  /\ UNCHANGED <<args, files>>
  /\ UNCHANGED appendVars
  /\ pc' = [pc EXCEPT ![p] = "done"]
  /\ result' = [result EXCEPT ![p] =
        [@ EXCEPT !.status = "frame", !.atEnd = files[args[p].local_path]]]

RemoveAndReturn(p) ==
  /\ pc[p] = "remove"
  /\ UNCHANGED args
  /\ UNCHANGED appendVars
  /\ IF files[args[p].local_path] = "absent"
     THEN /\ files' = files
          /\ Fail(p, "FileNotFoundError", result[p].parsed)
     ELSE /\ files' = [files EXCEPT ![args[p].local_path] = "absent"]
          /\ pc' = [pc EXCEPT ![p] = "done"]
          /\ result' = [result EXCEPT ![p] =
                [@ EXCEPT !.status = "frame", !.atEnd = "absent"]]

\* load_csv_as_dataframe: return pandas.read_csv(local_path, dtype=dtype)
ReadCsv(p) ==
  /\ pc[p] = "read_csv"
  /\ args[p].loader = "csv"
  /\ UNCHANGED <<args, files>>
  /\ UNCHANGED appendVars
  /\ LET text == files[args[p].local_path]
     IN IF text = "absent" THEN Fail(p, "FileNotFoundError", "")
        ELSE /\ pc' = [pc EXCEPT ![p] = "done"]
             /\ result' = [result EXCEPT ![p] =
                   [NoResult EXCEPT !.status = "frame", !.parsed = text,
                                    !.frame = CsvFrame(text), !.atEnd = text]]

LoadInit ==
  /\ files = [path \in Paths |-> "absent"]
  /\ pc = [p \in Threads |-> "idle"]
  /\ args = [p \in Threads |-> NoArgs]
  /\ result = [p \in Threads |-> NoResult]

\* ------------------------------------------------------------- specifications
\* The appender, called again and again by one caller.
Init ==
  /\ AppendInit
  /\ LoadInit

Next == append_dataframe_to_bq \/ CallerReloadsTable \/ Tick

Spec == Init /\ [][Next]_vars

AppendIdle ==
  /\ frame = MkFrame(<<>>, 0)
  /\ column_types = <<>>
  /\ col_modes = [given |-> FALSE, map |-> <<>>]
  /\ clock = 1
  /\ table = <<>>
  /\ last = NoCall

\* The loaders, called one call after the other by a single thread.
CallInSequence ==
  \E p \in Threads, l \in {"values", "csv"}, b \in Buckets, f \in FileNames :
    /\ pc[p] \in {"idle", "done", "failed"}
    /\ \A q \in Threads \ {p} : pc[q] = "idle"
    /\ StartCall(p, l, b, f)

DownloadStep == \E p \in Threads : Download(p)

ParseValuesStep == \E p \in Threads : ParseValues(p)

RemoveStep == \E p \in Threads : RemoveAndReturn(p)

ReadCsvStep == \E p \in Threads : ReadCsv(p)

InitLoad == AppendIdle /\ LoadInit

NextLoad ==
  \/ CallInSequence
  \/ DownloadStep
  \/ ParseValuesStep
  \/ RemoveStep
  \/ ReadCsvStep

SpecLoad == InitLoad /\ [][NextLoad]_vars

\* The loaders, called once by each of several threads at the same time.
CallConcurrently ==
  \E p \in Threads, l \in {"values", "csv"}, b \in Buckets, f \in FileNames :
    /\ pc[p] = "idle"
    /\ StartCall(p, l, b, f)

NextRace ==
  \/ CallConcurrently
  \/ DownloadStep
  \/ ParseValuesStep
  \/ RemoveStep
  \/ ReadCsvStep

SpecRace == InitLoad /\ [][NextRace]_vars

\* ------------------------------------------------------------- claims: append_dataframe_to_bq
\* keys(M) == columns(T): every label occurs as often among T's columns as
\* among M's keys.
SameColumns(T, M) ==
  \A c \in Range(T.columns) \cup KeySet(M) : Count(T.columns, c) = Count(Keys(M), c)

SchemaNames(job) == [i \in DOMAIN job.schema |-> job.schema[i].name]

\* C1: whenever keys(M) differs from columns(T) (a missing key, an extra key, a
\* differing count, repeated column labels), the call fails with the
\* schema-mismatch error, constructs no client, submits no load job and leaves
\* the destination table as it was.
C1_MismatchFailsBeforeNetwork ==
  (last.called /\ ~SameColumns(last.T, last.M)) =>
     /\ last.error = "SchemaMismatch"
     /\ ~last.client
     /\ ~last.submitted
     /\ last.job = NoJob
     /\ table = last.tableBefore

C1_Witness ==
  /\ last.called
  /\ last.error = "SchemaMismatch"
  /\ ~NoRepeat(last.T.columns)
  /\ Range(last.T.columns) = KeySet(last.M)
  /\ table # <<>>

\* C2: whenever keys(M) equals columns(T), validation passes, and the schema
\* submitted with the load job names exactly columns(T) and ingestion_time,
\* each once, and every record sent has exactly those keys.
C2_SchemaIsColumnsPlusIngestionTime ==
  (last.called /\ SameColumns(last.T, last.M)) =>
     /\ last.error \in {"none", "ClientError", "LoadJobError"}
     /\ last.error # "ClientError" => last.submitted
     /\ last.submitted =>
          LET names == SchemaNames(last.job)
          IN /\ Range(names) = Range(last.T.columns) \cup {"ingestion_time"}
             /\ NoRepeat(names)
             /\ Count(names, "ingestion_time") = 1
             /\ \A r \in DOMAIN last.job.json_data :
                  DOMAIN last.job.json_data[r] = Range(names)

C2_Witness ==
  /\ last.called
  /\ SameColumns(last.T, last.M)
  /\ last.error = "none"
  /\ Len(last.T.columns) = 2
  /\ "ingestion_time" \notin Range(last.T.columns)
  /\ Len(last.job.schema) = 3
  /\ Len(last.job.json_data) > 0

\* C3: a second call with the very table and mapping objects of a first call
\* that succeeded (on a table with columns and rows) passes validation too, and
\* when it succeeds the destination has grown by twice rows(T).
C3_SecondCallAppendsAgain ==
  ( /\ last.called
    /\ last.prev.same
    /\ last.prev.error = "none"
    /\ last.prev.nrows > 0
    /\ last.prev.ncols > 0 ) =>
     /\ last.error # "SchemaMismatch"
     /\ last.error = "none" => Len(table) = last.prev.tableLen + 2 * last.prev.nrows

\* C4: every load job is configured WRITE_APPEND; the rows the destination
\* held before a call are still there, in place, after it; a successful call
\* adds exactly rows(T) rows, carrying T's cells in T's row order; a failed
\* call adds none.
C4_PureAppend ==
  last.called =>
     /\ last.submitted => last.job.write_disposition = "WRITE_APPEND"
     /\ Len(table) >= Len(last.tableBefore)
     /\ \A i \in DOMAIN last.tableBefore : table[i] = last.tableBefore[i]
     /\ last.error # "none" => table = last.tableBefore
     /\ last.error = "none" =>
          /\ Len(table) = Len(last.tableBefore) + Len(last.T.data)
          /\ \A r \in DOMAIN last.T.data : \A c \in DOMAIN last.T.columns :
               last.T.columns[c] # "ingestion_time" =>
                 table[Len(last.tableBefore) + r][last.T.columns[c]] = last.T.data[r][c]

C4_Witness ==
  /\ last.called
  /\ last.error = "none"
  /\ last.tableBefore # <<>>
  /\ Len(last.T.data) = 2
  /\ Len(table) = Len(last.tableBefore) + 2

\* C5: every row a call emits carries the one clock reading the call took as
\* its ingestion_time, also where the table already had that column; two
\* calls that read different clock values emit different ingestion_time values.
C5_OneTimestampPerCall ==
  last.submitted =>
     /\ \A r \in DOMAIN last.job.json_data :
          last.job.json_data[r]["ingestion_time"] = last.now
     /\ (last.prev.submitted /\ last.prev.now # last.now) =>
          EmittedTimes(last.job) \cap last.prev.emitted = {}

C5_Witness ==
  /\ last.submitted
  /\ last.prev.submitted
  /\ last.prev.now # last.now
  /\ last.prev.emitted # {}
  /\ "ingestion_time" \in Range(last.T.columns)
  /\ Len(last.job.json_data) = 2

\* C9: in the submitted schema every caller column has the type M gives it,
\* ingestion_time has type TIMESTAMP whatever M says, and a field's mode is
\* col_modes[c] when col_modes is given and has c, NULLABLE otherwise.
C9_SchemaTypesAndModes ==
  last.submitted =>
     /\ \A c \in Range(last.T.columns) : c \in Range(SchemaNames(last.job))
     /\ \A i \in DOMAIN last.job.schema :
          LET f == last.job.schema[i]
          IN /\ f.name = "ingestion_time" => f.field_type = "TIMESTAMP"
             /\ f.name # "ingestion_time" =>
                  Has(last.M, f.name) /\ f.field_type = Get(last.M, f.name)
             /\ f.mode = IF last.col_modes.given /\ Has(last.col_modes.map, f.name)
                         THEN Get(last.col_modes.map, f.name)
                         ELSE "NULLABLE"

C9_Witness ==
  /\ last.submitted
  /\ Has(last.M, "ingestion_time")
  /\ Get(last.M, "ingestion_time") = "STRING"
  /\ last.col_modes.given
  /\ Has(last.col_modes.map, "ingestion_time")
  /\ Len(last.job.schema) = 2

\* C10: a call leaves the caller's two mappings as they were; a call that
\* fails validation leaves the caller's table as it was; after a call that
\* passed validation (whatever happened next) the caller's table has its
\* previous columns plus ingestion_time while M has its previous keys.
C10_CallerObjects ==
  last.called =>
     /\ column_types = last.M
     /\ col_modes = last.col_modes
     /\ last.error = "SchemaMismatch" => frame = last.T
     /\ (last.error # "SchemaMismatch" /\ ~last.fresh) =>
          /\ Range(frame.columns) = Range(last.T.columns) \cup {"ingestion_time"}
          /\ Len(frame.columns) =
               Len(last.T.columns) + (IF "ingestion_time" \in Range(last.T.columns) THEN 0 ELSE 1)
          /\ Len(frame.data) = Len(last.T.data)
          /\ KeySet(column_types) = KeySet(last.M)

C10_Witness ==
  /\ last.called
  /\ last.error = "LoadJobError"
  /\ ~last.fresh
  /\ "ingestion_time" \notin Range(last.T.columns)
  /\ "ingestion_time" \in Range(frame.columns)
  /\ "ingestion_time" \notin KeySet(column_types)
  /\ Len(frame.data) > 0

\* ------------------------------------------------------------- claims: the loaders
OwnObject(p) == Objects[args[p].gcs_bucket][args[p].filename]

\* C6: when a values-format load has returned a table its staging file
\* /tmp/<filename> does not exist; when a CSV load has returned a table its
\* staging file exists and holds the downloaded object's bytes.
C6_StagingFileAfterSuccess ==
  \A p \in Threads :
    result[p].status = "frame" =>
      /\ args[p].local_path = "/tmp/" \o args[p].filename
      /\ args[p].loader = "values" =>
           result[p].atEnd = "absent" /\ files[args[p].local_path] = "absent"
      /\ args[p].loader = "csv" =>
           result[p].atEnd = OwnObject(p) /\ files[args[p].local_path] = OwnObject(p)

C6_Witness ==
  \E p \in Threads :
    /\ result[p].status = "frame"
    /\ args[p].loader = "csv"
    /\ args[p].filename = "f"
    /\ files["/tmp/f"] = OwnObject(p)
    /\ files["/tmp/g"] = "absent"

\* C7: whenever a values-format load that staged its object has ended, with a
\* table or with an error, its staging file does not exist.
C7_StagingFileDeletedOnEveryExit ==
  \A p \in Threads :
    (args[p].loader = "values" /\ Ended(p) /\ result[p].error # "StoreError") =>
       result[p].atEnd = "absent"

\* What a call returns when no other call touches its staging file.
SoloResult(p) ==
  LET text == OwnObject(p)
      err == IF args[p].loader = "values" THEN ValuesError(text) ELSE "none"
  IN [status |-> IF err = "none" THEN "frame" ELSE "error",
      error |-> err,
      parsed |-> text,
      frame |-> IF err # "none" THEN MkFrame(<<>>, 0)
                ELSE IF args[p].loader = "values" THEN ValuesFrame(text)
                ELSE CsvFrame(text),
      atEnd |-> IF args[p].loader = "values" /\ err = "none" THEN "absent" ELSE text]

Started(p) == pc[p] # "idle"

\* C8: two calls have the same staging path exactly when they name the same
\* object, whatever their buckets and loaders; a file exists only at the path
\* of some call; and a call whose object name no other call shares ends as
\* it would alone, on the bytes of its own object.  (That calls sharing a name
\* do interfere is the witness.)
C8_OnlySameNameCallsInterfere ==
  /\ \A p, q \in Threads :
       (Started(p) /\ Started(q)) =>
          (args[p].local_path = args[q].local_path <=> args[p].filename = args[q].filename)
  /\ \A path \in DOMAIN files :
       files[path] # "absent" => \E p \in Threads : Started(p) /\ args[p].local_path = path
  /\ \A p \in Threads :
       ( /\ Ended(p)
         /\ result[p].error # "StoreError"
         /\ \A q \in Threads \ {p} : Started(q) => args[q].filename # args[p].filename )
       => result[p] = SoloResult(p)

C8_Witness ==
  \E p, q \in Threads :
    /\ p # q
    /\ args[p].filename = args[q].filename
    /\ args[p].gcs_bucket # args[q].gcs_bucket
    /\ result[q].status = "frame"
    /\ result[q].parsed = OwnObject(p)
    /\ result[q].parsed # OwnObject(q)
    /\ result[p].error = "FileNotFoundError"

====
